---- MODULE Spec2Model ----
(***************************************************************************)
(* Warm-session lifecycle of server.py: the startup warmer (lifespan), the *)
(* rewarm routine (_create_and_set_session), the /flight handler           *)
(* (get_flight_info) and its post-response task (cleanup_and_warm).        *)
(*                                                                         *)
(* Scheduling is asyncio's: one thread, a coroutine runs without           *)
(* interruption from one await to the next.  Every action below is one     *)
(* such uninterrupted stretch of code.  The awaits are                     *)
(* session_service.create_session, session_service.delete_session, each    *)
(* step of the runner.run_async event stream, and a wait for               *)
(* _session_lock when it is held.                                          *)
(***************************************************************************)
EXTENDS Integers, Sequences, FiniteSets, TLC

\* ---------------------------------------------------------------- bounds
NumRequests == 2   \* /flight requests that arrive during a run
MaxRewarm == 4     \* concurrent invocations of the rewarm routine (SpecRewarm)
MaxEvents == 1     \* non-final events a request reads from the agent stream
MaxTextLen == 5    \* tokens in a final text (SpecTyping)
MaxStreamLen == 2  \* events in an agent stream (SpecStream)

MaxTask == IF NumRequests > MaxRewarm THEN NumRequests ELSE MaxRewarm

Requests == 1..NumRequests
\* Invocations of _create_and_set_session.  StartupTask is the call made by
\* lifespan; task r (r >= 1) is the one created by the cleanup of request r
\* (a cleanup creates at most one).
StartupTask == 0
Tasks == 0..MaxTask
NoTask == -1       \* _background_warm_task = None

\* ------------------------------------------------------------- sessions
\* create_session returns a session with a fresh id.  The model names the
\* fresh id after the call that created it; each call site runs at most once
\* per task and per request.
None == 0
SessionOfTask(t) == t + 1
SessionOfReq(r) == MaxTask + 1 + r
Sessions == 1..(MaxTask + 1 + NumRequests)

\* Contenders for _session_lock.
Req(r) == <<"req", r>>
Task(t) == <<"task", t>>

\* ----------------------------------------------------------------- texts
\* A text is a sequence of tokens.  "s" is a JSON string literal, "1" a JSON
\* number, "x" a bare word (as in: no flight found).
Tokens == {"{", "}", ":", "s", "1", "x"}
NoText == <<"None">>          \* Python None (no token is called None)
EmptyText == << >>            \* ""
JsonText == <<"{", "s", ":", "1", "}">>     \* {"a":1}
PlainText == <<"x", "x">>                   \* no flight found

RECURSIVE TextsOfLen(_)
TextsOfLen(n) ==
    IF n = 0 THEN {<< >>}
    ELSE {Append(t, c) : t \in TextsOfLen(n - 1), c \in Tokens}
AllTexts == UNION {TextsOfLen(n) : n \in 0..MaxTextLen}

\* json.loads on a token sequence: the index after the value that starts at
\* i, or 0 when no value starts there.
RECURSIVE ParseValue(_, _)
ParseValue(t, i) ==
    IF i > Len(t) THEN 0
    ELSE IF t[i] \in {"1", "s"} THEN i + 1
    ELSE IF t[i] = "{" THEN
        IF i + 1 <= Len(t) /\ t[i + 1] = "}" THEN i + 2
        ELSE IF i + 2 <= Len(t) /\ t[i + 1] = "s" /\ t[i + 2] = ":" THEN
            LET j == ParseValue(t, i + 3)
            IN IF j # 0 /\ j <= Len(t) /\ t[j] = "}" THEN j + 1 ELSE 0
        ELSE 0
    ELSE 0

\* json.loads(text) returns (TRUE) or raises (FALSE): one value, then the end.
JsonLoadsOk(text) == text # NoText /\ ParseValue(text, 1) = Len(text) + 1

\* Python truthiness of an Optional[str].
Truthy(text) == text # NoText /\ text # EmptyText

\* ------------------------------------------------------------- responses
NoBody == <<"NoBody">>
NoResponse == [status |-> 0, body |-> NoBody, media |-> "none", err |-> "none"]
NoContent == [status |-> 204, body |-> NoBody, media |-> "none", err |-> "none"]
ErrorResponse(cause) ==
    [status |-> 500, body |-> NoBody, media |-> "none", err |-> cause]

\* server.py 179-184
MediaTypeSwapped(text) ==
    IF JsonLoadsOk(text) THEN "text/plain" ELSE "application/json"
MediaType(text) ==
    IF JsonLoadsOk(text) THEN "application/json" ELSE "text/plain"

\* server.py 172-187: the response built from final_text.
MakeResponse(final_text) ==
    IF ~Truthy(final_text) THEN NoContent
    ELSE [status |-> 200, body |-> final_text,
          media |-> MediaType(final_text), err |-> "none"]

\* ---------------------------------------------------------------- events
\* An event of runner.run_async: whether it reports itself final, and the
\* text attribute of each of its content parts (NoText: the part has none;
\* no parts: the event has no content).
Event(final, parts) == [final |-> final, parts |-> parts]
PartLists ==
    {<< >>, <<NoText>>, <<EmptyText, JsonText>>, <<NoText, PlainText, JsonText>>}
Events == {Event(f, p) : f \in BOOLEAN, p \in PartLists}

\* server.py 150: event.is_final_response()
IsFinalResponse(e) == e.final

\* server.py 151-155: the first part whose text is truthy, else None.
RECURSIVE FirstText(_, _)
FirstText(parts, i) ==
    IF i > Len(parts) THEN NoText
    ELSE IF Truthy(parts[i]) THEN parts[i]
    ELSE FirstText(parts, i + 1)
RECURSIVE LastText(_, _)
LastText(parts, i) ==
    IF i < 1 THEN NoText
    ELSE IF Truthy(parts[i]) THEN parts[i]
    ELSE LastText(parts, i - 1)
EventTextLast(e) == LastText(e.parts, Len(e.parts))
EventText(e) == FirstText(e.parts, 1)

\* ----------------------------------------------------------------- state
VARIABLES
    cred,                  \* os.getenv("GOOGLE_API_KEY") is set
    phase,                 \* lifespan: "boot", "warming", "serving", "fatal"
    shared_session,        \* _shared_session (None or a session id)
    session_lock,          \* _session_lock: the holder, then the waiters in order
    background_warm_task,  \* _background_warm_task (NoTask or a task)
    wpc,                   \* position of each _create_and_set_session call
    pc,                    \* position of each get_flight_info call
    session,               \* the handler's local variable session
    nEvents,               \* non-final events read so far in a running agent loop
    response,              \* what the caller of the handler got
    how,                   \* history: how each request acquired its session
    launch,                \* history: what each request's cleanup did about a rewarm
    firstHow,              \* history: how the first accepted request acquired
    created,               \* history: sessions create_session has returned
    delAttempts,           \* history: delete_session calls per session
    deleted,               \* history: sessions whose delete_session succeeded
    tyIn,                  \* SpecTyping: a final text
    tyOut,                 \* SpecTyping: the response built from it
    stStream,              \* SpecStream: the events the agent stream will yield
    stPos,                 \* SpecStream: how many of them the loop has read
    stResult,              \* SpecStream: final_text
    stDone                 \* SpecStream: the loop has ended

vars == <<cred, phase, shared_session, session_lock, background_warm_task, wpc,
          pc, session, nEvents, response, how, launch, firstHow, created,
          delAttempts, deleted, tyIn, tyOut, stStream, stPos, stResult, stDone>>

streaming == <<stStream, stPos, stResult, stDone>>
typing == <<tyIn, tyOut, streaming>>
reqLocals == <<nEvents, response, launch>>
store == <<created, delAttempts, deleted>>

\* The state after import of server.py (lines 74-76), before lifespan runs.
Init ==
    /\ cred \in BOOLEAN
    /\ phase = "boot"
    /\ shared_session = None
    /\ session_lock = << >>
    /\ background_warm_task = NoTask
    /\ wpc = [t \in Tasks |-> "idle"]
    /\ pc = [r \in Requests |-> "idle"]
    /\ session = [r \in Requests |-> None]
    /\ nEvents = [r \in Requests |-> 0]
    /\ response = [r \in Requests |-> NoResponse]
    /\ how = [r \in Requests |-> "none"]
    /\ launch = [r \in Requests |-> "none"]
    /\ firstHow = "none"
    /\ created = {}
    /\ delAttempts = [s \in Sessions |-> 0]
    /\ deleted = {}
    /\ tyIn = NoText
    /\ tyOut = NoResponse
    /\ stStream = << >>
    /\ stPos = 0
    /\ stResult = NoText
    /\ stDone = FALSE

\* One delete_session call on s, succeeding or raising.
DeleteSession(s, ok) ==
    /\ delAttempts' = [delAttempts EXCEPT ![s] = @ + 1]
    /\ deleted' = IF ok THEN deleted \cup {s} ELSE deleted

\* ------------------------------------------------------------- lifespan
\* server.py 81-82: the credential is absent, startup raises.
StartupFatal ==
    /\ phase = "boot" /\ ~cred
    /\ phase' = "fatal"
    /\ UNCHANGED <<cred, shared_session, session_lock, background_warm_task, wpc,
                   pc, session, how, firstHow, reqLocals, store, typing>>

\* server.py 84: lifespan awaits the rewarm routine, it does not serve yet.
StartupNotAwaited == "serving"
PhaseOnStartup == "warming"

\* server.py 81-84: the credential is present, lifespan calls the rewarm
\* routine, which runs up to its create_session await.
StartupWarm ==
    /\ phase = "boot" /\ cred
    /\ phase' = PhaseOnStartup
    /\ wpc' = [wpc EXCEPT ![StartupTask] = "create"]
    /\ UNCHANGED <<cred, shared_session, session_lock, background_warm_task,
                   pc, session, how, firstHow, reqLocals, store, typing>>

\* server.py 84-86: when the call made by lifespan returns, lifespan yields
\* and the application starts serving.
PhaseAfterWarm(t) == IF t = StartupTask THEN "serving" ELSE phase

\* ------------------------------------------- _create_and_set_session
\* server.py 103: the routine installs when the slot is empty.
WarmInstallsAlways(slot) == TRUE
WarmInstalls(slot) == slot = None

\* server.py 102-116 from the moment the lock is held; q is the lock queue
\* with Task(t) at its head.
WarmCritical(t, q) ==
    IF WarmInstalls(shared_session)
    THEN /\ shared_session' = SessionOfTask(t)
         /\ session_lock' = Tail(q)
         /\ wpc' = [wpc EXCEPT ![t] = "done"]
         /\ phase' = PhaseAfterWarm(t)
    ELSE /\ wpc' = [wpc EXCEPT ![t] = "delete"]
         /\ session_lock' = q
         /\ UNCHANGED <<shared_session, phase>>

\* server.py 98-102: create_session returns; the lock is taken at once when
\* it is free, else the call queues for it.
WarmCreateOk(t) ==
    /\ wpc[t] = "create"
    /\ created' = created \cup {SessionOfTask(t)}
    /\ IF session_lock = << >>
       THEN WarmCritical(t, <<Task(t)>>)
       ELSE /\ session_lock' = Append(session_lock, Task(t))
            /\ wpc' = [wpc EXCEPT ![t] = "lock"]
            /\ UNCHANGED <<shared_session, phase>>
    /\ UNCHANGED <<cred, background_warm_task, pc, session, how, firstHow,
                   reqLocals, delAttempts, deleted, typing>>

\* server.py 98, 117-118: create_session raises; logged and swallowed.
WarmCreateFail(t) ==
    /\ wpc[t] = "create"
    /\ wpc' = [wpc EXCEPT ![t] = "done"]
    /\ phase' = PhaseAfterWarm(t)
    /\ UNCHANGED <<cred, shared_session, session_lock, background_warm_task,
                   pc, session, how, firstHow, reqLocals, store, typing>>

\* server.py 102: the call, queued for the lock, is handed it.
WarmLocked(t) ==
    /\ wpc[t] = "lock"
    /\ session_lock # << >> /\ Head(session_lock) = Task(t)
    /\ WarmCritical(t, session_lock)
    /\ UNCHANGED <<cred, background_warm_task, pc, session, how, firstHow,
                   reqLocals, store, typing>>

\* server.py 108-116: the deletion of the surplus session returns or raises
\* (swallowed); the lock is released.
WarmDelete(t) ==
    /\ wpc[t] = "delete"
    /\ \E ok \in BOOLEAN : DeleteSession(SessionOfTask(t), ok)
    /\ session_lock' = Tail(session_lock)
    /\ wpc' = [wpc EXCEPT ![t] = "done"]
    /\ phase' = PhaseAfterWarm(t)
    /\ UNCHANGED <<cred, shared_session, background_warm_task, pc, session,
                   how, firstHow, reqLocals, created, typing>>

\* ------------------------------------------------------ get_flight_info
\* server.py 138: the slot after a request has taken session s from it.
SlotKeepsTaken(s) == s
SlotAfterTake(s) == None

\* server.py 129-138 from the moment the lock is held; q is the lock queue
\* with Req(r) at its head.  With a warm session the handler takes it,
\* leaves the lock and starts the agent run (141-148); with none it awaits
\* create_session, holding the lock.
ReqCritical(r, q) ==
    /\ firstHow' = IF firstHow # "none" THEN firstHow
                   ELSE IF shared_session = None THEN "fallback" ELSE "slot"
    /\ IF shared_session = None
       THEN /\ pc' = [pc EXCEPT ![r] = "fallback"]
            /\ session_lock' = q
            /\ UNCHANGED <<shared_session, session, how>>
       ELSE /\ session' = [session EXCEPT ![r] = shared_session]
            /\ shared_session' = SlotAfterTake(shared_session)
            /\ how' = [how EXCEPT ![r] = "slot"]
            /\ session_lock' = Tail(q)
            /\ pc' = [pc EXCEPT ![r] = "running"]

\* server.py 121-129: a request arrives; the lock is taken at once when it
\* is free, else the handler queues for it.
Arrive(r) ==
    /\ phase = "serving"
    /\ pc[r] = "idle"
    /\ IF session_lock = << >>
       THEN ReqCritical(r, <<Req(r)>>)
       ELSE /\ session_lock' = Append(session_lock, Req(r))
            /\ pc' = [pc EXCEPT ![r] = "lock"]
            /\ UNCHANGED <<shared_session, session, how, firstHow>>
    /\ UNCHANGED <<cred, phase, background_warm_task, wpc, reqLocals, store,
                   typing>>

\* server.py 129: the handler, queued for the lock, is handed it.
ReqLocked(r) ==
    /\ pc[r] = "lock"
    /\ session_lock # << >> /\ Head(session_lock) = Req(r)
    /\ ReqCritical(r, session_lock)
    /\ UNCHANGED <<cred, phase, background_warm_task, wpc, reqLocals, store,
                   typing>>

\* server.py 129-135: the lock when the handler leaves the async with block,
\* entered with lock queue q, after create_session returned.
LockHeldThroughRun(q) == q
LockAfterCreate(q) == Tail(q)

\* server.py 132-135, 141-148: the fallback create_session returns; the
\* handler leaves the lock and starts the agent run.
FallbackOk(r) ==
    /\ pc[r] = "fallback"
    /\ session' = [session EXCEPT ![r] = SessionOfReq(r)]
    /\ created' = created \cup {SessionOfReq(r)}
    /\ how' = [how EXCEPT ![r] = "fallback"]
    /\ session_lock' = LockAfterCreate(session_lock)
    /\ pc' = [pc EXCEPT ![r] = "running"]
    /\ UNCHANGED <<cred, phase, shared_session, background_warm_task, wpc,
                   firstHow, reqLocals, delAttempts, deleted, typing>>

\* server.py 129: the lock when an exception leaves the async with block
\* entered with lock queue q.
LockKeptOnError(q) == q
LockAfterError(q) == Tail(q)

\* server.py 132-135: the fallback create_session raises; the exception
\* leaves the async with block and the handler.
FallbackFail(r) ==
    /\ pc[r] = "fallback"
    /\ session_lock' = LockAfterError(session_lock)
    /\ pc' = [pc EXCEPT ![r] = "acqfailed"]
    /\ response' = [response EXCEPT ![r] = ErrorResponse("create_session")]
    /\ UNCHANGED <<cred, phase, shared_session, background_warm_task, wpc,
                   session, how, firstHow, nEvents, launch, store, typing>>

\* server.py 144-158: the stream yields an event that is not final.
AgentProgress(r) ==
    /\ pc[r] = "running"
    /\ nEvents[r] < MaxEvents
    /\ \E e \in Events : ~IsFinalResponse(e)
    /\ nEvents' = [nEvents EXCEPT ![r] = @ + 1]
    /\ UNCHANGED <<cred, phase, shared_session, session_lock,
                   background_warm_task, wpc, pc, session, how, firstHow,
                   response, launch, store, typing>>

\* The cleanup task created before the response is built.
RespondCleanupFirst(r, final_text) ==
    /\ pc' = [pc EXCEPT ![r] = "cleanup"]
    /\ nEvents' = [nEvents EXCEPT ![r] = 0]
    /\ UNCHANGED <<cred, phase, shared_session, session_lock,
                   background_warm_task, wpc, session, how, firstHow,
                   response, launch, store, typing>>

\* server.py 172-214: the handler returns with final_text.  Without text it
\* returns at line 174; with text it builds the response, creates the
\* cleanup_and_warm task (212) and returns.
Respond(r, final_text) ==
    /\ response' = [response EXCEPT ![r] = MakeResponse(final_text)]
    /\ pc' = [pc EXCEPT ![r] = IF ~Truthy(final_text) THEN "done" ELSE "cleanup"]
    /\ nEvents' = [nEvents EXCEPT ![r] = 0]
    /\ UNCHANGED <<cred, phase, shared_session, session_lock,
                   background_warm_task, wpc, session, how, firstHow,
                   launch, store, typing>>

\* server.py 150-156: the stream yields a final event; the loop breaks.
AgentFinal(r) ==
    /\ pc[r] = "running"
    /\ \E e \in Events : IsFinalResponse(e) /\ Respond(r, EventText(e))

\* server.py 144: the stream ends without a final event.
AgentEnd(r) ==
    /\ pc[r] = "running"
    /\ Respond(r, NoText)

\* server.py 159-163: the stream raises; the handler awaits delete_session.
AgentRaise(r) ==
    /\ pc[r] = "running"
    /\ pc' = [pc EXCEPT ![r] = "errdelete"]
    /\ nEvents' = [nEvents EXCEPT ![r] = 0]
    /\ UNCHANGED <<cred, phase, shared_session, session_lock,
                   background_warm_task, wpc, session, how, firstHow,
                   response, launch, store, typing>>

\* server.py 168-170: the error that leaves the handler after the deletion
\* returned (ok) or raised.
ErrorOfDeletion(ok) == IF ok THEN "run_async" ELSE "delete_session"
ErrorAfterDelete(ok) == "run_async"

\* server.py 162-170: the deletion returns or raises (swallowed); the
\* original error is raised again.
ErrDelete(r) ==
    /\ pc[r] = "errdelete"
    /\ \E ok \in BOOLEAN :
        /\ DeleteSession(session[r], ok)
        /\ response' = [response EXCEPT ![r] = ErrorResponse(ErrorAfterDelete(ok))]
    /\ pc' = [pc EXCEPT ![r] = "failed"]
    /\ UNCHANGED <<cred, phase, shared_session, session_lock,
                   background_warm_task, wpc, session, how, firstHow, nEvents,
                   launch, created, typing>>

\* ------------------------------------------------------ cleanup_and_warm
\* server.py 205: a new rewarm task is created when none is tracked or the
\* tracked one is done.
MayLaunchAlways(task) == TRUE
MayLaunch(task) == task = NoTask \/ wpc[task] = "done"

\* server.py 199-203: after the deletion returned (ok) or raised, the
\* exception being swallowed, the task goes on to the launch step.
LaunchStepOnlyIfDeleted(ok) == ok
LaunchStepRuns(ok) == TRUE

\* server.py 192-209: the deletion of the consumed session returns or
\* raises (swallowed); then the rewarm task is created unless one is
\* tracked and not done.  The task of request r is task r.
CleanupDelete(r) ==
    /\ pc[r] = "cleanup"
    /\ \E ok \in BOOLEAN :
        /\ DeleteSession(session[r], ok)
        /\ IF ~LaunchStepRuns(ok)
           THEN UNCHANGED <<launch, background_warm_task, wpc>>
           ELSE IF MayLaunch(background_warm_task)
           THEN /\ background_warm_task' = r
                /\ wpc' = [wpc EXCEPT ![r] = "create"]
                /\ launch' = [launch EXCEPT ![r] = "launched"]
           ELSE /\ launch' = [launch EXCEPT ![r] = "skipped"]
                /\ UNCHANGED <<background_warm_task, wpc>>
    /\ pc' = [pc EXCEPT ![r] = "done"]
    /\ UNCHANGED <<cred, phase, shared_session, session_lock, session, how,
                   firstHow, nEvents, response, created, typing>>

\* ------------------------------------------------------- specifications
Next ==
    \/ StartupFatal
    \/ StartupWarm
    \/ \E t \in Tasks : WarmCreateOk(t)
    \/ \E t \in Tasks : WarmCreateFail(t)
    \/ \E t \in Tasks : WarmLocked(t)
    \/ \E t \in Tasks : WarmDelete(t)
    \/ \E r \in Requests : Arrive(r)
    \/ \E r \in Requests : ReqLocked(r)
    \/ \E r \in Requests : FallbackOk(r)
    \/ \E r \in Requests : FallbackFail(r)
    \/ \E r \in Requests : AgentProgress(r)
    \/ \E r \in Requests : AgentFinal(r)
    \/ \E r \in Requests : AgentEnd(r)
    \/ \E r \in Requests : AgentRaise(r)
    \/ \E r \in Requests : ErrDelete(r)
    \/ \E r \in Requests : CleanupDelete(r)

Spec == Init /\ [][Next]_vars

\* server.py 78-86: the steps of lifespan before it yields.
StartupStep == StartupFatal \/ StartupWarm

\* server.py 90-118: the steps of rewarm call t, each the return of an
\* awaited Session Store call or the hand-over of the lock.
WarmStep(t) ==
    WarmCreateOk(t) \/ WarmCreateFail(t) \/ WarmLocked(t) \/ WarmDelete(t)

\* server.py 129-212: the steps of request r after its arrival, each the
\* return of an awaited call, the next event of the stream or the hand-over
\* of the lock.
ReqStep(r) ==
    \/ ReqLocked(r) \/ FallbackOk(r) \/ FallbackFail(r)
    \/ AgentProgress(r) \/ AgentFinal(r) \/ AgentEnd(r) \/ AgentRaise(r)
    \/ ErrDelete(r) \/ CleanupDelete(r)

\* The event loop runs every ready coroutine, and every awaited Session
\* Store and Agent Runtime call returns or raises: a step that stays
\* possible is taken.  Arrivals are not forced.
SpecFair ==
    /\ Spec
    /\ WF_vars(StartupStep)
    /\ \A t \in Tasks : WF_vars(WarmStep(t))
    /\ \A r \in Requests : WF_vars(ReqStep(r))

\* The rewarm routine invoked n times concurrently on an empty slot (as by
\* asyncio.gather over n calls of _create_and_set_session), nothing else
\* running: calls 1..n are at their create_session await.
InitRewarm ==
    /\ cred = TRUE
    /\ phase = "serving"
    /\ shared_session = None
    /\ session_lock = << >>
    /\ background_warm_task = NoTask
    /\ \E n \in 1..MaxRewarm :
         wpc = [t \in Tasks |-> IF t \in 1..n THEN "create" ELSE "idle"]
    /\ pc = [r \in Requests |-> "idle"]
    /\ session = [r \in Requests |-> None]
    /\ nEvents = [r \in Requests |-> 0]
    /\ response = [r \in Requests |-> NoResponse]
    /\ how = [r \in Requests |-> "none"]
    /\ launch = [r \in Requests |-> "none"]
    /\ firstHow = "none"
    /\ created = {}
    /\ delAttempts = [s \in Sessions |-> 0]
    /\ deleted = {}
    /\ tyIn = NoText
    /\ tyOut = NoResponse
    /\ stStream = << >>
    /\ stPos = 0
    /\ stResult = NoText
    /\ stDone = FALSE

NextRewarm ==
    \/ \E t \in Tasks : WarmCreateOk(t)
    \/ \E t \in Tasks : WarmCreateFail(t)
    \/ \E t \in Tasks : WarmLocked(t)
    \/ \E t \in Tasks : WarmDelete(t)

SpecRewarm == InitRewarm /\ [][NextRewarm]_vars

\* Output typing as a function: lines 172-187 applied to one final text.
InitTyping ==
    /\ cred = TRUE
    /\ phase = "serving"
    /\ shared_session = None
    /\ session_lock = << >>
    /\ background_warm_task = NoTask
    /\ wpc = [t \in Tasks |-> "idle"]
    /\ pc = [r \in Requests |-> "idle"]
    /\ session = [r \in Requests |-> None]
    /\ nEvents = [r \in Requests |-> 0]
    /\ response = [r \in Requests |-> NoResponse]
    /\ how = [r \in Requests |-> "none"]
    /\ launch = [r \in Requests |-> "none"]
    /\ firstHow = "none"
    /\ created = {}
    /\ delAttempts = [s \in Sessions |-> 0]
    /\ deleted = {}
    /\ tyIn \in AllTexts \cup {NoText}
    /\ tyOut = NoResponse
    /\ stStream = << >>
    /\ stPos = 0
    /\ stResult = NoText
    /\ stDone = FALSE

TypingApply ==
    /\ tyOut = NoResponse
    /\ tyOut' = MakeResponse(tyIn)
    /\ UNCHANGED <<cred, phase, shared_session, session_lock,
                   background_warm_task, wpc, pc, session, how, firstHow,
                   reqLocals, store, tyIn, streaming>>

NextTyping == TypingApply

SpecTyping == InitTyping /\ [][NextTyping]_vars

\* The event loop as a function of the stream: lines 142-158 run on one
\* stream of events fixed in advance.
RECURSIVE StreamsOfLen(_)
StreamsOfLen(n) ==
    IF n = 0 THEN {<< >>}
    ELSE {Append(st, e) : st \in StreamsOfLen(n - 1), e \in Events}
AllStreams == UNION {StreamsOfLen(n) : n \in 0..MaxStreamLen}

InitStream ==
    /\ cred = TRUE
    /\ phase = "serving"
    /\ shared_session = None
    /\ session_lock = << >>
    /\ background_warm_task = NoTask
    /\ wpc = [t \in Tasks |-> "idle"]
    /\ pc = [r \in Requests |-> "idle"]
    /\ session = [r \in Requests |-> None]
    /\ nEvents = [r \in Requests |-> 0]
    /\ response = [r \in Requests |-> NoResponse]
    /\ how = [r \in Requests |-> "none"]
    /\ launch = [r \in Requests |-> "none"]
    /\ firstHow = "none"
    /\ created = {}
    /\ delAttempts = [s \in Sessions |-> 0]
    /\ deleted = {}
    /\ tyIn = NoText
    /\ tyOut = NoResponse
    /\ stStream \in AllStreams
    /\ stPos = 0
    /\ stResult = NoText
    /\ stDone = FALSE

streamRest == <<cred, phase, shared_session, session_lock, background_warm_task,
                wpc, pc, session, how, firstHow, reqLocals, store, tyIn, tyOut,
                stStream>>

\* server.py 144-158: the next event is not final; the loop goes on.
StreamProgress ==
    /\ ~stDone /\ stPos < Len(stStream)
    /\ ~IsFinalResponse(stStream[stPos + 1])
    /\ stPos' = stPos + 1
    /\ UNCHANGED <<stResult, stDone, streamRest>>

\* server.py 150-156: the next event is final; its text is taken and the
\* loop breaks.
StreamFinal ==
    /\ ~stDone /\ stPos < Len(stStream)
    /\ IsFinalResponse(stStream[stPos + 1])
    /\ stPos' = stPos + 1
    /\ stResult' = EventText(stStream[stPos + 1])
    /\ stDone' = TRUE
    /\ UNCHANGED streamRest

\* server.py 144: the stream is exhausted; the loop ends.
StreamEnd ==
    /\ ~stDone /\ stPos = Len(stStream)
    /\ stDone' = TRUE
    /\ UNCHANGED <<stPos, stResult, streamRest>>

NextStream == StreamProgress \/ StreamFinal \/ StreamEnd

SpecStream == InitStream /\ [][NextStream]_vars

TypeOK ==
    /\ phase \in {"boot", "warming", "serving", "fatal"}
    /\ shared_session \in Sessions \cup {None}
    /\ background_warm_task \in Tasks \cup {NoTask}
    /\ \A t \in Tasks : wpc[t] \in {"idle", "create", "lock", "delete", "done"}
    /\ \A r \in Requests :
        /\ pc[r] \in {"idle", "lock", "fallback", "running", "errdelete",
                      "failed", "acqfailed", "cleanup", "done"}
        /\ session[r] \in Sessions \cup {None}
        /\ nEvents[r] \in 0..MaxEvents

\* ---------------------------------------------------------------- claims
\* A request that holds a session it has not finished with.
InFlight(r) == pc[r] \in {"running", "errdelete", "cleanup"}

\* The request's cleanup_and_warm task has run to its end.
CleanupDone(r) == pc[r] = "done" /\ launch[r] # "none"

\* C1: the slot holds no session or one, every in-flight request holds a
\* session, no two in-flight requests hold the same one, and the session in
\* the slot is held by no in-flight request.
C1_OneHolderPerSession ==
    /\ shared_session \in Sessions \cup {None}
    /\ \A r \in Requests : InFlight(r) =>
        /\ session[r] \in Sessions
        /\ session[r] # shared_session
        /\ \A r2 \in Requests \ {r} : InFlight(r2) => session[r2] # session[r]

\* Two requests run the agent at the same time, one on the warm session and
\* one on a fallback session.
C1_Witness ==
    \E r1, r2 \in Requests :
        /\ r1 # r2
        /\ pc[r1] = "running" /\ how[r1] = "slot"
        /\ pc[r2] = "running" /\ how[r2] = "fallback"

\* A session a finished rewarm call created and found no use for: it is
\* neither in the slot nor was it handed to a request.
Surplus(t) ==
    /\ wpc[t] = "done"
    /\ SessionOfTask(t) \in created
    /\ shared_session # SessionOfTask(t)
    /\ \A r \in Requests : session[r] # SessionOfTask(t)

\* C2: every session a request consumed has had exactly one deletion
\* attempt once the request has ended (response or agent error), every
\* surplus session of a finished rewarm has had exactly one, and no session
\* has had two.
C2_EverySessionDeletedOnce ==
    /\ \A r \in Requests :
        (pc[r] \in {"done", "failed"} /\ session[r] # None)
            => delAttempts[session[r]] = 1
    /\ \A t \in Tasks : Surplus(t) => delAttempts[SessionOfTask(t)] = 1
    /\ \A s \in Sessions : delAttempts[s] <= 1

\* C3: a request that has returned a response (200 or 204) and has nothing
\* left to run has had its session deleted and has launched a rewarm or
\* found one pending.
C3_CleanupAfterEveryResponse ==
    \A r \in Requests :
        (pc[r] = "done" /\ response[r].status \in {200, 204})
            => /\ delAttempts[session[r]] = 1
               /\ launch[r] \in {"launched", "skipped"}

\* C4: the session of a request whose cleanup has completed is not in the
\* slot and is the session of no other request.
C4_NoReuseAfterCleanup ==
    \A r \in Requests : CleanupDone(r) =>
        /\ shared_session # session[r]
        /\ \A r2 \in Requests \ {r} : session[r2] # session[r]

\* A request runs the agent on the session warmed by the task that the
\* cleanup of an earlier request launched.
C4_Witness ==
    \E r, r2 \in Requests :
        /\ r # r2
        /\ CleanupDone(r)
        /\ pc[r2] = "running"
        /\ session[r2] = SessionOfTask(r)

RECURSIVE SumAttempts(_)
SumAttempts(S) ==
    IF S = {} THEN 0
    ELSE LET s == CHOOSE x \in S : TRUE
         IN delAttempts[s] + SumAttempts(S \ {s})

RewarmCalls == {t \in Tasks : wpc[t] # "idle"}
AllRewarmsDone == \A t \in RewarmCalls : wpc[t] = "done"
AllRewarmsCreated == \A t \in RewarmCalls : SessionOfTask(t) \in created

\* C5: N concurrent rewarm calls on an empty slot, all creations
\* succeeding: when all have finished the slot holds one of the created
\* sessions, that one has had no deletion attempt, each other created
\* session has had exactly one, and there are at most N-1 attempts in all.
C5_RewarmIdempotent ==
    (AllRewarmsDone /\ AllRewarmsCreated) =>
        /\ shared_session \in created
        /\ delAttempts[shared_session] = 0
        /\ \A s \in created \ {shared_session} : delAttempts[s] = 1
        /\ SumAttempts(Sessions) <= Cardinality(RewarmCalls) - 1

\* Three or more concurrent calls have finished, all created a session, and
\* a deletion of a surplus session failed.
C5_Witness ==
    /\ Cardinality(RewarmCalls) >= 3
    /\ AllRewarmsDone /\ AllRewarmsCreated
    /\ \E s \in created : delAttempts[s] = 1 /\ s \notin deleted

\* C6: when the event stream raises, the handler attempts one deletion of
\* the request's session and then ends with the stream's error, also when
\* the deletion fails; neither step writes the slot or creates a rewarm
\* task, and the request launches no rewarm afterwards.
C6_AgentErrorPath ==
    [][\A r \in Requests :
        /\ (pc[r] = "running" /\ pc'[r] = "errdelete") =>
            /\ shared_session' = shared_session
            /\ background_warm_task' = background_warm_task
            /\ wpc' = wpc
            /\ delAttempts' = delAttempts
        /\ (pc[r] = "errdelete" /\ pc'[r] # "errdelete") =>
            /\ pc'[r] = "failed"
            /\ delAttempts'[session[r]] = delAttempts[session[r]] + 1
            /\ response'[r] = ErrorResponse("run_async")
            /\ shared_session' = shared_session
            /\ background_warm_task' = background_warm_task
            /\ wpc' = wpc
        /\ pc[r] = "failed" =>
            /\ pc'[r] = "failed"
            /\ launch'[r] = "none"
            /\ delAttempts'[session[r]] = 1
      ]_vars

\* A request ended with the agent's error although the deletion of its
\* session failed.
C6_Witness ==
    \E r \in Requests :
        /\ pc[r] = "failed"
        /\ session[r] \notin deleted
        /\ delAttempts[session[r]] = 1
        /\ response[r] = ErrorResponse("run_async")

\* C7: a request that created its session on the fallback path and ended
\* with a response has gone through cleanup: it launched a rewarm or found
\* one pending.
C7_FallbackThenRewarm ==
    \A r \in Requests :
        (how[r] = "fallback" /\ pc[r] = "done" /\ response[r].status \in {200, 204})
            => launch[r] \in {"launched", "skipped"}

StartupSession == SessionOfTask(StartupTask)

\* What C8 says of a missing credential and of the order of startup: without
\* the credential nothing is created and no request is accepted; requests
\* are accepted only after the startup call of the rewarm routine has ended.
C8_StartupOrder ==
    /\ ~cred =>
        /\ phase \in {"boot", "fatal"}
        /\ created = {}
        /\ \A r \in Requests : pc[r] = "idle"
    /\ phase # "serving" => \A r \in Requests : pc[r] = "idle"
    /\ phase = "serving" => wpc[StartupTask] = "done"

\* C8 as claimed: besides the order of startup, whenever the application
\* serves and no request has been accepted yet the slot holds a session,
\* and the first accepted request does not take the fallback path.
C8_FirstRequestAlwaysWarm ==
    /\ C8_StartupOrder
    /\ (phase = "serving" /\ firstHow = "none") => shared_session # None
    /\ firstHow # "fallback"

\* C8 amended: besides the order of startup, when the application serves
\* and no request has been accepted yet the slot holds the startup session
\* if its creation succeeded and is empty if it failed; the first accepted
\* request is served from the slot in the first case and takes the fallback
\* path in the second.
C8_FirstRequestWarmIfCreated ==
    /\ C8_StartupOrder
    /\ (phase = "serving" /\ firstHow = "none") =>
        shared_session = IF StartupSession \in created THEN StartupSession ELSE None
    /\ firstHow = "slot" =>
        /\ StartupSession \in created
        /\ \E r \in Requests : session[r] = StartupSession /\ how[r] = "slot"
    /\ firstHow = "fallback" => StartupSession \notin created

\* The first accepted request runs the agent on the startup session.
C8_Witness ==
    /\ phase = "serving"
    /\ firstHow = "slot"
    /\ \E r \in Requests :
        /\ pc[r] = "running"
        /\ session[r] = StartupSession
        /\ \A r2 \in Requests \ {r} : pc[r2] = "idle"

\* C9: the response is decided by the final text alone: none or empty gives
\* 204 without body; text that json.loads accepts gives 200, that text and
\* application/json; any other text gives 200, that text and text/plain.
\* The texts named are cases of each kind.
C9_OutputTyping ==
    tyOut # NoResponse =>
        /\ tyIn \in {NoText, EmptyText} =>
            (tyOut.status = 204 /\ tyOut.body = NoBody)
        /\ (tyIn \notin {NoText, EmptyText} /\ JsonLoadsOk(tyIn)) =>
            (tyOut.status = 200 /\ tyOut.body = tyIn
                /\ tyOut.media = "application/json")
        /\ (tyIn \notin {NoText, EmptyText} /\ ~JsonLoadsOk(tyIn)) =>
            (tyOut.status = 200 /\ tyOut.body = tyIn /\ tyOut.media = "text/plain")
        /\ tyIn \in {JsonText, <<"1">>, <<"s">>, <<"{", "}">>,
                     <<"{", "s", ":", "s", "}">>, <<"{", "s", ":", "{", "}", "}">>}
            => tyOut.media = "application/json"
        /\ tyIn \in {PlainText, <<"x">>, <<"{">>, <<"1", "1">>, <<"s", ":", "1">>,
                     <<"{", "1", ":", "1", "}">>, <<"{", "s", "}">>,
                     <<"{", "s", ":", "{", "}">>, <<"{", "s", ":", "x", "}">>}
            => tyOut.media = "text/plain"

\* The text {"a":1} has been answered as application/json.
C9_Witness ==
    /\ tyIn = JsonText
    /\ tyOut.status = 200
    /\ tyOut.media = "application/json"

\* C10: when the fallback create_session raises, the handler ends with that
\* error, holding the lock no longer; the step leaves the slot empty,
\* attempts no deletion and creates no rewarm task; the request has no
\* session and launches no rewarm afterwards.
C10_FallbackCreateFailure ==
    [][\A r \in Requests :
        /\ (pc[r] = "fallback" /\ pc'[r] \notin {"fallback", "running"}) =>
            /\ pc'[r] = "acqfailed"
            /\ response'[r] = ErrorResponse("create_session")
            /\ shared_session = None /\ shared_session' = None
            /\ Head(session_lock) = Req(r)
            /\ session_lock' = Tail(session_lock)
            /\ delAttempts' = delAttempts
            /\ background_warm_task' = background_warm_task
            /\ wpc' = wpc
        /\ pc'[r] = "acqfailed" =>
            /\ session'[r] = None
            /\ launch'[r] = "none"
            /\ \A i \in 1..Len(session_lock') : session_lock'[i] # Req(r)
        /\ pc[r] = "acqfailed" => pc'[r] = "acqfailed"
      ]_vars

\* A request that queued for the lock behind a request whose fallback
\* creation failed has been handed the lock (no session was ever created, so
\* no other call can have held it).
C10_Witness ==
    \E r1, r2 \in Requests :
        /\ pc[r1] = "acqfailed"
        /\ created = {}
        /\ pc[r2] = "lock"
        /\ session_lock = <<Req(r2)>>

\* C11: a failure in a background or cleanup path is swallowed and changes
\* no response.  The cleanup step, whether its deletion succeeded or failed,
\* goes on to the launch step: it creates the rewarm task exactly when none
\* is tracked or the tracked one is done.  A rewarm call whose creation
\* failed ends leaving the slot as it was.  A rewarm call whose surplus
\* deletion returned or failed ends leaving the session of the slot in
\* place.
C11_BackgroundFailuresSwallowed ==
    [][/\ \A r \in Requests :
            (pc[r] = "cleanup" /\ pc'[r] # "cleanup") =>
                /\ pc'[r] = "done"
                /\ response' = response
                /\ delAttempts'[session[r]] = delAttempts[session[r]] + 1
                /\ launch'[r] \in {"launched", "skipped"}
                /\ (launch'[r] = "launched") =
                     (background_warm_task = NoTask
                        \/ wpc[background_warm_task] = "done")
                /\ launch'[r] = "launched" =>
                     (background_warm_task' = r /\ wpc'[r] = "create")
       /\ \A t \in Tasks :
            /\ (wpc[t] = "create" /\ wpc'[t] = "done"
                    /\ SessionOfTask(t) \notin created') =>
                (shared_session' = shared_session /\ response' = response
                    /\ session_lock' = session_lock)
            /\ (wpc[t] = "delete" /\ wpc'[t] # "delete") =>
                /\ wpc'[t] = "done"
                /\ shared_session # None
                /\ shared_session' = shared_session
                /\ response' = response
                /\ session_lock' = Tail(session_lock)
      ]_vars

\* A cleanup whose deletion failed has launched the rewarm task, and the
\* request keeps its 200 response.
C11_Witness ==
    \E r \in Requests :
        /\ pc[r] = "done"
        /\ launch[r] = "launched"
        /\ delAttempts[session[r]] = 1
        /\ session[r] \notin deleted
        /\ response[r].status = 200

\* The contenders in the lock queue (the holder and the waiters).
InLockQueue(p) == \E i \in 1..Len(session_lock) : session_lock[i] = p

\* Request r arrives in this step.
Arrives(r) == pc[r] = "idle" /\ pc'[r] # "idle"

\* C12 as claimed: while some request is suspended in its fallback
\* creation, in a deletion call or in the event stream, a request that
\* arrives acquires at once: it starts its agent run on the warm session or
\* starts its own fallback creation, and does not queue.
C12_ArrivalNeverWaits ==
    [][\A r1, r2 \in Requests :
        (r1 # r2 /\ pc[r1] \in {"fallback", "running", "errdelete", "cleanup"}
            /\ Arrives(r2))
          => pc'[r2] \in {"running", "fallback"}
      ]_vars

\* C12 amended: a request suspended in a deletion call or in the event
\* stream is not in the lock queue, and a request that arrives acquires at
\* once exactly when the lock is free; a request suspended in its fallback
\* creation holds the lock, and a request that arrives then queues behind
\* it.
C12_ArrivalWaitsOnlyForLock ==
    [][/\ \A r \in Requests :
            /\ pc[r] \in {"running", "errdelete", "cleanup"} => ~InLockQueue(Req(r))
            /\ pc[r] = "fallback" =>
                (session_lock # << >> /\ Head(session_lock) = Req(r))
       /\ \A r2 \in Requests : Arrives(r2) =>
            IF session_lock = << >>
            THEN pc'[r2] \in {"running", "fallback"}
            ELSE /\ pc'[r2] = "lock"
                 /\ session_lock' = Append(session_lock, Req(r2))
       /\ \A r1, r2 \in Requests :
            (r1 # r2 /\ pc[r1] = "fallback" /\ Arrives(r2)) => pc'[r2] = "lock"
      ]_vars

\* The first request took the warm session and is still reading the event
\* stream; a second request, which found the slot empty and so arrived
\* after it, runs the agent on its fallback session.
C12_Witness ==
    \E r1, r2 \in Requests :
        /\ r1 # r2
        /\ firstHow = "slot"
        /\ how[r1] = "slot" /\ pc[r1] = "running"
        /\ how[r2] = "fallback" /\ pc[r2] = "running"

\* The rewarm tasks created by cleanups that have not finished.
UnfinishedBackground == {t \in Tasks \ {StartupTask} : wpc[t] \notin {"idle", "done"}}

\* C13: at most one rewarm task created by a cleanup is unfinished, and it
\* is the tracked one; a step that creates a rewarm task is a cleanup step
\* taken when no task was tracked or the tracked one was done, and it
\* creates one task only.
C13_OneBackgroundRewarm ==
    [][/\ Cardinality(UnfinishedBackground) <= 1
       /\ UnfinishedBackground \subseteq {background_warm_task}
       /\ \A t \in Tasks \ {StartupTask} :
            (wpc[t] = "idle" /\ wpc'[t] # "idle") =>
                /\ background_warm_task = NoTask \/ wpc[background_warm_task] = "done"
                /\ UnfinishedBackground = {}
                /\ pc[t] = "cleanup" /\ pc'[t] = "done"
                /\ background_warm_task' = t
                /\ UnfinishedBackground' = {t}
      ]_vars

\* Two cleanups have run while the task of the first was unfinished: the
\* first created it, the second created none.
C13_Witness ==
    \E r1, r2 \in Requests :
        /\ launch[r1] = "launched"
        /\ launch[r2] = "skipped"
        /\ UnfinishedBackground = {r1}

\* C14: a step that puts a session in the slot starts from an empty slot,
\* and the session is the one a rewarm call created; a step that removes
\* the session of the slot is the take of one request, which becomes the
\* only request to hold it; no step replaces one session by another.
C14_InstallOnlyIntoEmptySlot ==
    [][shared_session' # shared_session =>
        \/ /\ shared_session = None
           /\ \E t \in Tasks :
                /\ shared_session' = SessionOfTask(t)
                /\ wpc[t] \in {"create", "lock"} /\ wpc'[t] = "done"
                /\ \A r \in Requests : session[r] # SessionOfTask(t)
        \/ /\ shared_session # None
           /\ shared_session' = None
           /\ Cardinality({r \in Requests : session'[r] = shared_session}) = 1
           /\ \E r \in Requests :
                /\ session[r] = None /\ session'[r] = shared_session
                /\ pc'[r] = "running"
      ]_vars

\* A rewarm call holds the lock and has found the slot occupied: it is about
\* to delete its own session, the slot keeps the one it holds.
C14_Witness ==
    \E t \in Tasks :
        /\ wpc[t] = "delete"
        /\ shared_session \in created
        /\ shared_session # SessionOfTask(t)

\* A delete_session call on the session of request r returns in this step.
DeletesOwn(r) ==
    /\ session[r] # None
    /\ delAttempts'[session[r]] # delAttempts[session[r]]

\* The agent run of request r starts in this step.
StartsRun(r) == pc[r] # "running" /\ pc'[r] = "running"

\* C15 as claimed: a request has its session when its agent run starts and
\* none before it has acquired; its session is deleted, and its rewarm is
\* launched, only after its agent run has ended and its response has been
\* produced.
C15_CleanupOnlyAfterResponse ==
    [][\A r \in Requests :
        /\ pc[r] \in {"idle", "lock", "fallback"} => session[r] = None
        /\ StartsRun(r) =>
            (session'[r] \in Sessions /\ delAttempts'[session'[r]] = 0)
        /\ DeletesOwn(r) =>
            (pc[r] \notin {"idle", "lock", "fallback", "running"}
                /\ response[r].status \in {200, 204})
        /\ launch'[r] # launch[r] =>
            (pc[r] \notin {"idle", "lock", "fallback", "running"}
                /\ response[r].status \in {200, 204})
      ]_vars

\* C15 amended: a request has its session when its agent run starts and
\* none before it has acquired; its session is deleted only after its agent
\* run has ended: by the cleanup task, after the response has been
\* produced, or by the error handler when the run raised, before the error
\* reaches the caller; its rewarm is launched only by the cleanup task,
\* after the response has been produced and the deletion attempted.
C15_PhasesOrdered ==
    [][\A r \in Requests :
        /\ pc[r] \in {"idle", "lock", "fallback"} => session[r] = None
        /\ StartsRun(r) =>
            (session'[r] \in Sessions /\ delAttempts'[session'[r]] = 0)
        /\ pc[r] = "running" => (response[r] = NoResponse /\ launch[r] = "none")
        /\ DeletesOwn(r) =>
            \/ /\ pc[r] = "cleanup"
               /\ response[r].status = 200
               /\ response'[r] = response[r]
            \/ /\ pc[r] = "errdelete"
               /\ response[r] = NoResponse
               /\ response'[r].status = 500
        /\ launch'[r] # launch[r] =>
            /\ pc[r] = "cleanup"
            /\ response[r].status = 200
            /\ delAttempts'[session[r]] = 1
      ]_vars

\* A request that took the warm session has answered 200, its cleanup has
\* deleted the session and launched the rewarm.
C15_Witness ==
    \E r \in Requests :
        /\ how[r] = "slot"
        /\ pc[r] = "done"
        /\ response[r].status = 200
        /\ session[r] \in deleted
        /\ launch[r] = "launched"

\* The index of the first final event of the stream, 0 when it has none.
FirstFinal ==
    LET F == {i \in 1..Len(stStream) : stStream[i].final}
    IN IF F = {} THEN 0 ELSE CHOOSE i \in F : \A j \in F : i <= j

\* The text the claim names for a final event: that of its first part with
\* a non-empty text, none when it has no such part.
FirstNonEmpty(parts) ==
    LET T == {i \in 1..Len(parts) : parts[i] # NoText /\ parts[i] # EmptyText}
    IN IF T = {} THEN NoText ELSE parts[CHOOSE i \in T : \A j \in T : i <= j]

\* C16: the loop reads the events in order and none after the first final
\* one; while it runs it has met no final event and holds no text; when it
\* has ended it has stopped at the first final event with the first
\* non-empty text of that event (none if it has no such part), or has read
\* the whole stream, which has no final event, and holds no text.
C16_StreamConsumption ==
    /\ stPos \in 0..Len(stStream)
    /\ FirstFinal # 0 => stPos <= FirstFinal
    /\ ~stDone =>
        /\ stResult = NoText
        /\ \A i \in 1..stPos : ~stStream[i].final
    /\ stDone =>
        IF FirstFinal = 0
        THEN stPos = Len(stStream) /\ stResult = NoText
        ELSE stPos = FirstFinal
                /\ stResult = FirstNonEmpty(stStream[FirstFinal].parts)

\* The loop has stopped at a final first event whose first part has no
\* text, with the text of its second part, leaving an event unread.
C16_Witness ==
    /\ stDone
    /\ Len(stStream) = 2 /\ stPos = 1
    /\ stStream[1].parts = <<NoText, PlainText, JsonText>>
    /\ stResult = PlainText

\* C17: a request that acquires while the slot is empty awaits its own
\* fallback creation under the lock; a request that took the warm session
\* and a request that used the fallback hold different sessions, the second
\* one the session it created; a request that has ended without an error
\* has a 200 or 204 response.  The scenario itself is C17_Witness.
C17_BackToBackSafe ==
    /\ \A r \in Requests :
        /\ pc[r] = "fallback" =>
            (shared_session = None /\ session[r] = None
                /\ session_lock # << >> /\ Head(session_lock) = Req(r))
        /\ how[r] = "fallback" => session[r] = SessionOfReq(r)
        /\ how[r] = "slot" => \E t \in Tasks : session[r] = SessionOfTask(t)
        /\ pc[r] = "done" => response[r].status \in {200, 204}
    /\ \A r1, r2 \in Requests :
        (r1 # r2 /\ how[r1] = "slot" /\ how[r2] # "none")
            => session[r1] # session[r2]

\* The first request took the startup session, answered 200 and its cleanup
\* launched the rewarm; the second request used the fallback, answered 200
\* and its cleanup found that rewarm still unfinished, so it had acquired
\* before the rewarm installed; the sessions differ and both are complete.
C17_Witness ==
    \E r1, r2 \in Requests :
        /\ firstHow = "slot"
        /\ how[r1] = "slot" /\ session[r1] = SessionOfTask(StartupTask)
        /\ pc[r1] = "done" /\ response[r1].status = 200
        /\ launch[r1] = "launched"
        /\ how[r2] = "fallback" /\ session[r2] = SessionOfReq(r2)
        /\ pc[r2] = "done" /\ response[r2].status = 200
        /\ launch[r2] = "skipped"
        /\ wpc[r1] \in {"create", "lock"}

\* Nothing is running: the application serves, every request that arrived
\* has ended and no cleanup or rewarm call is unfinished.
Quiescent ==
    /\ phase = "serving"
    /\ \A r \in Requests : pc[r] \in {"idle", "done", "failed", "acqfailed"}
    /\ \A t \in Tasks : wpc[t] \in {"idle", "done"}

\* No create_session call has failed and no agent run has raised.
NoFailureSoFar ==
    /\ \A t \in Tasks : wpc[t] = "done" => SessionOfTask(t) \in created
    /\ \A r \in Requests : pc[r] \notin {"failed", "acqfailed", "errdelete"}

\* C18: when nothing is running, no creation has failed and every request
\* that arrived has ended with a response, the slot holds a session.
C18_SlotRefilledAtQuiescence ==
    (Quiescent /\ NoFailureSoFar) => shared_session \in Sessions

\* A deletion of session s returns in this step.
Deletes(s) == delAttempts'[s] # delAttempts[s]

\* C19: a step in which a deletion of session s returns does not find s in
\* the slot nor leave it there; the requests that hold s are at most one,
\* whose agent run has ended and which is the one deleting; when no request
\* holds s the deletion is that of a rewarm call which found the slot
\* occupied by another session, and s was never installed (it is neither
\* in the slot nor held by a request).  A session once deleted is never in
\* the slot nor in use by a running request.
C19_NoUseAfterDelete ==
    [][\A s \in Sessions :
        /\ Deletes(s) =>
            /\ shared_session # s /\ shared_session' # s
            /\ \A r \in Requests : session[r] = s =>
                /\ pc[r] \in {"errdelete", "cleanup"}
                /\ pc'[r] \in {"failed", "done"}
                /\ \A r2 \in Requests \ {r} : session[r2] # s
            /\ (\A r \in Requests : session[r] # s) =>
                \E t \in Tasks :
                    /\ s = SessionOfTask(t)
                    /\ wpc[t] = "delete" /\ wpc'[t] = "done"
                    /\ shared_session \in Sessions
        /\ delAttempts[s] > 0 =>
            /\ shared_session' # s
            /\ \A r \in Requests : session'[r] = s => pc'[r] \in {"failed", "done"}
      ]_vars

\* A cleanup has deleted the session of its request while another request
\* runs the agent and the slot holds a warm session, both other sessions.
C19_Witness ==
    \E r1, r2 \in Requests :
        /\ pc[r1] = "done" /\ delAttempts[session[r1]] = 1
        /\ pc[r2] = "running" /\ delAttempts[session[r2]] = 0
        /\ shared_session \in Sessions /\ delAttempts[shared_session] = 0

\* The processes that take the slot lock.
LockUsers == {Req(r) : r \in Requests} \cup {Task(t) : t \in Tasks}

\* Process p holds the slot lock.
Holds(p) == session_lock # << >> /\ Head(session_lock) = p

\* C20: under fair scheduling, with every awaited call returning or
\* raising, every holder of the slot lock releases it, every request queued
\* for the lock acquires it, every request that arrived ends with a
\* response or an error, and every rewarm call that started finishes.
C20_LockProgress ==
    /\ \A p \in LockUsers : Holds(p) ~> ~Holds(p)
    /\ \A r \in Requests :
        /\ (pc[r] = "lock") ~> (pc[r] \in {"fallback", "running"})
        /\ (pc[r] # "idle") ~> (pc[r] \in {"done", "failed", "acqfailed"})
    /\ \A t \in Tasks : (wpc[t] # "idle") ~> (wpc[t] = "done")

\* The fallback creation of one request has raised and the lock has passed
\* to a request that was queued behind it.
C20_Witness ==
    \E r1, r2 \in Requests :
        /\ pc[r1] = "acqfailed"
        /\ pc[r2] = "lock" /\ Holds(Req(r2))

====
